---- MODULE Spec2Model ----
(***************************************************************************)
(* kbdmshook (src/src/lib.rs): a process-wide low-level keyboard / mouse   *)
(* hook.  The model has the four statics of the crate (MOUSE_HOOK,         *)
(* KEYBOARD_HOOK, CALLBACK, EXIT), the part of the operating system the    *)
(* crate talks to (the installed hooks, the calls of UnhookWindowsHookEx,  *)
(* each thread's posted-message queue), the threads that run start_hook,   *)
(* and one caller thread that runs stop_hook and set_hook_callback.        *)
(* Every acquisition of an RwLock is one step: what a function does while  *)
(* it holds a guard is atomic for the other threads.                       *)
(*                                                                         *)
(* Spec and FairSpec are the crate with callbacks that return without      *)
(* calling it.  PoisonSpec adds the poisoning of a lock, FairReentrantSpec *)
(* callbacks that call stop_hook or set_hook_callback.                     *)
(***************************************************************************)
EXTENDS Integers, Sequences, FiniteSets, TLC

\* ---------------------------------------------------------------- bounds
\* what the application and the operating system do to the crate in one
\* behaviour: calls of start_hook, start_hook_async, stop_hook and
\* set_hook_callback, messages posted, input events
MaxCalls == 4

\* the threads that may run start_hook: SyncThread calls start_hook itself
\* (and may call it again once it has returned), each of AsyncThreads is the
\* thread one start_hook_async call spawns.  stop_hook and set_hook_callback
\* are called by a further thread.
SyncThread == 1
AsyncThreads == {2}
LoopThreads == {SyncThread} \cup AsyncThreads
\* the function pointers a caller may register
Callbacks == {1, 2}
\* Option::None of the three Option statics, and the NULL handle
None == 0
\* each start call installs at most two hooks
Handles == 1..(2 * MaxCalls)

VARIABLES
    KEYBOARD_HOOK,  \* lib.rs:49  None or the stored keyboard handle
    MOUSE_HOOK,     \* lib.rs:48  None or the stored mouse handle
    CALLBACK,       \* lib.rs:50  None or the registered callback
    EXIT,           \* lib.rs:51  the termination flag
    issued,         \* OS: handle -> [kind, owner] of every handle handed out
    active,         \* OS: the handles whose hook is installed
    unhookCalls,    \* OS: handle -> number of UnhookWindowsHookEx calls with it
    queue,          \* OS: thread -> its posted messages
    pc,             \* thread -> its position in start_hook
    args,           \* thread -> [mouse, keyboard] of its start_hook call
    hp,             \* thread -> the hook procedure it is executing
    delivered,      \* the calls of the callback, in order: [t, cb, ev]
    spc,            \* the caller thread's position in stop_hook
    calls,          \* calls, posted messages and input events so far
    stopped,        \* history: a stop_hook call during which no thread was
                    \*          installing hooks returned, no start call since
    stopCovers,     \* history: async sessions running when the stop_hook in
                    \*          progress began
    stopAfter,      \* history: async sessions that a returned stop_hook followed
    quiet,          \* history: a stop_hook call is in progress and no thread has
                    \*          been installing hooks since it began
    replaced,       \* history: the callbacks registered, then overwritten
    restarted,      \* history: the threads whose start_hook call is the first
                    \*          call of start or stop since such a stop_hook
                    \*          call (see stopped) returned
    invoked,        \* history: thread -> the events of the hook procedure
                    \*          invocations on it that found a callback and
                    \*          a payload that decodes, in order
    stopResult,     \* history: how the latest stop_hook call returned
    attempts,       \* history: the removal functions the latest stop_hook
                    \*          call has called
    poisoned        \* the RwLock statics that are poisoned

vars == <<KEYBOARD_HOOK, MOUSE_HOOK, CALLBACK, EXIT, issued, active,
          unhookCalls, queue, pc, args, hp, delivered, spc, calls,
          stopped, stopCovers, stopAfter, quiet, replaced, restarted, invoked,
          stopResult, attempts, poisoned>>

regVars == <<KEYBOARD_HOOK, MOUSE_HOOK, CALLBACK, EXIT>>
osVars == <<issued, active, unhookCalls, queue>>
histVars == <<stopped, stopCovers, stopAfter, quiet, replaced, restarted,
              invoked>>
\* what only stop_hook and a fault change
aux == <<stopResult, attempts, poisoned>>

\* one more call, posted message or input event
CallMade ==
    /\ calls < MaxCalls
    /\ calls' = calls + 1

\* ----------------------------------------------------------- event model
\* KeyEvent (lib.rs:15-18) as decoded by the match of keyboard_hook_proc
WM_KEYDOWN == 256
WM_KEYUP == 257
WM_SYSKEYDOWN == 260
WM_SYSKEYUP == 261

NoEvent == <<"NoEvent">>

\* the match without its arms for the system keys
KeyboardDecode_NoSys(wparam, vkCode) ==
    CASE wparam = WM_KEYDOWN -> <<"KeyPress", vkCode>>
      [] wparam = WM_KEYUP   -> <<"KeyUp", vkCode>>
      [] OTHER               -> NoEvent

KeyboardDecode(wparam, vkCode) ==
    CASE wparam = WM_KEYDOWN    -> <<"KeyPress", vkCode>>
      [] wparam = WM_KEYUP      -> <<"KeyUp", vkCode>>
      [] wparam = WM_SYSKEYDOWN -> <<"KeyPress", vkCode>>
      [] wparam = WM_SYSKEYUP   -> <<"KeyUp", vkCode>>
      [] OTHER                  -> NoEvent

\* MouseEvent (lib.rs:26-37): the discriminants of the #[repr(i32)] enum
MouseEventTable ==
    [MouseMove |-> 512, MouseLeftBUttonDown |-> 513, MouseLeftButtonUp |-> 514,
     MouseRightButtonDown |-> 516, MouseRightButtonUp |-> 517,
     MouseWheelRouting |-> 522, MouseMiddleButtonDown |-> 43,
     MouseMiddleButtonUp |-> 524]

\* MouseEvent::try_from(code): the variant whose discriminant is code, or Err
MouseTryFrom(code) ==
    IF \E v \in DOMAIN MouseEventTable : MouseEventTable[v] = code
    THEN CHOOSE v \in DOMAIN MouseEventTable : MouseEventTable[v] = code
    ELSE "Err"

\* the event built without the payload's position
MouseDecode_NoPoint(wparam, pt) ==
    IF MouseTryFrom(wparam) = "Err" THEN NoEvent
    ELSE <<MouseTryFrom(wparam), <<0, 0>>>>

\* lib.rs:135-141: the event mouse_hook_proc builds, if any
MouseDecode(wparam, pt) ==
    IF MouseTryFrom(wparam) = "Err" THEN NoEvent
    ELSE <<MouseTryFrom(wparam), pt>>

\* the raw inputs the operating system hands to the hook procedures: the
\* message identifier in wparam, and in lparam a null pointer or a pointer to
\* a payload with a virtual-key code or a screen position
KbdCodes == {256, 257, 260, 261, 258}
MouseCodes == {512, 513, 43, 519}
VkCodes == {65}
Points == {<<120, 340>>}
CodesOf(kind) == IF kind = "kbd" THEN KbdCodes ELSE MouseCodes
\* with a null lparam the procedures do not look at wparam (lib.rs:103, 134):
\* one message identifier stands for all
NullCodes == {256, 512}

\* the four statics (lib.rs:48-51)
Locks == {"MOUSE_HOOK", "KEYBOARD_HOOK", "CALLBACK", "EXIT"}

\* the static that holds the handle of the hooks of a kind
HandleLock(kind) == IF kind = "kbd" THEN "KEYBOARD_HOOK" ELSE "MOUSE_HOOK"

\* ------------------------------------------------------------------ Init
\* RwLock::read / RwLock::write of a static: Err(PoisonError) once the lock
\* is poisoned, Ok(guard) otherwise
LockOk(l) == l \notin poisoned

IdleHp == [stage |-> "none", kind |-> "none", wparam |-> 0, null |-> FALSE,
           vk |-> 0, pt |-> <<0, 0>>, cb |-> None, calls |-> 0, ret |-> 0,
           chain |-> 0, arg |-> None]

NoArgs == [mouse |-> FALSE, keyboard |-> FALSE]

Init ==
    /\ KEYBOARD_HOOK = None
    /\ MOUSE_HOOK = None
    /\ CALLBACK = None
    /\ EXIT = FALSE
    /\ issued = <<>>
    /\ active = {}
    /\ unhookCalls = [h \in {None} \cup Handles |-> 0]
    /\ queue = [t \in LoopThreads |-> <<>>]
    /\ pc = [t \in LoopThreads |-> "idle"]
    /\ args = [t \in LoopThreads |-> NoArgs]
    /\ hp = [t \in LoopThreads |-> IdleHp]
    /\ delivered = <<>>
    /\ spc = "idle"
    /\ calls = 0
    /\ stopped = FALSE
    /\ stopCovers = {}
    /\ stopAfter = {}
    /\ quiet = FALSE
    /\ replaced = {}
    /\ restarted = {}
    /\ invoked = [t \in LoopThreads |-> <<>>]
    /\ stopResult = "none"
    /\ attempts = {}
    /\ poisoned = {}

\* the positions of a thread inside start_hook: installing the hooks and
\* clearing the flag, then in the loop, blocked in GetMessageW
Installing == {"kbd", "mouse", "clr"}
Running == Installing \cup {"getmsg"}
Returned == {"ok", "err"}

\* ----------------------------------------------------- operating system
\* SetWindowsHookExW succeeding: a fresh handle, its hook installed
OsInstall(kind, t) ==
    /\ issued' = Append(issued, [kind |-> kind, owner |-> t])
    /\ active' = active \cup {Len(issued) + 1}

\* UnhookWindowsHookEx(h): removes the hook if h is an installed one, fails
\* (the crate discards the result) otherwise.  Handles are not reused, and a
\* hook stays installed until it is unhooked, also when the call of start_hook
\* that installed it has returned.
OsUnhook(h) ==
    /\ active' = active \ {h}
    /\ unhookCalls' = [unhookCalls EXCEPT ![h] = @ + 1]

ActiveOf(kind) == {h \in active : issued[h].kind = kind}
HooksOf(t) == {h \in active : issued[h].owner = t}

\* a message is posted to the queue of a thread that waits in GetMessageW
\* (only GetMessageW reads the queue, so a message posted earlier, or while
\* the thread executes a hook procedure, is one posted now)
PostMessage(t, m) ==
    /\ pc[t] = "getmsg"
    /\ hp[t].stage = "none"
    /\ CallMade
    /\ queue' = [queue EXCEPT ![t] = Append(@, m)]
    /\ UNCHANGED <<regVars, issued, active, unhookCalls, pc, args, hp,
                   delivered, spc, histVars, aux>>

\* ------------------------------------------------------------ start_hook
\* lib.rs:76-84: the first thing start_hook(hook_mouse, hook_keyboard) does
FirstStep(m, k) == IF k THEN "kbd" ELSE IF m THEN "mouse" ELSE "clr"

Begin(t, m, k) ==
    /\ CallMade
    /\ pc' = [pc EXCEPT ![t] = FirstStep(m, k)]
    /\ args' = [args EXCEPT ![t] = [mouse |-> m, keyboard |-> k]]
    /\ stopped' = FALSE
    /\ stopCovers' = stopCovers \ {t}
    /\ stopAfter' = stopAfter \ {t}
    /\ quiet' = FALSE
    /\ restarted' = IF stopped THEN {t} ELSE {}
    /\ UNCHANGED <<regVars, osVars, hp, delivered, spc, replaced, invoked, aux>>

\* start_hook called by SyncThread, which is not in a start_hook call
start_hook(m, k) ==
    /\ pc[SyncThread] \in {"idle"} \cup Returned
    /\ Begin(SyncThread, m, k)

\* start_hook_async: a new thread that runs start_hook(m, k)
start_hook_async(t, m, k) ==
    /\ t \in AsyncThreads
    /\ pc[t] = "idle"
    /\ Begin(t, m, k)

\* start_hook returns Ok(()) or an error: its arguments are gone
Return(t, result) ==
    /\ pc' = [pc EXCEPT ![t] = result]
    /\ args' = [args EXCEPT ![t] = NoArgs]

\* the result of set_keyboard_hook is discarded
AfterKeyboardHook_Discarded(ok, mouse) == IF mouse THEN "mouse" ELSE "clr"

\* lib.rs:76-81: `set_keyboard_hook(..)?`, then the test of hook_mouse
AfterKeyboardHook(ok, mouse) ==
    IF ~ok THEN "err" ELSE IF mouse THEN "mouse" ELSE "clr"

\* lib.rs:79-84: `set_mouse_hook(..)?`, then the flag is cleared
AfterMouseHook(ok) == IF ok THEN "clr" ELSE "err"

\* thread t goes on in start_hook at position next, or returns the error
Continue(t, next) ==
    IF next = "err" THEN Return(t, "err")
    ELSE /\ pc' = [pc EXCEPT ![t] = next]
         /\ UNCHANGED args

\* lib.rs:148-159; failure is SetWindowsHookExW returning an error
\* the outcomes of SetWindowsHookExW, which is not called when the write
\* guard of the static is refused (lib.rs:149-156 / 162-169)
InstallOutcomes(l) == IF LockOk(l) THEN BOOLEAN ELSE {FALSE}

\* lib.rs:148-159; failure is KEYBOARD_HOOK.write() or SetWindowsHookExW
\* returning an error
set_keyboard_hook(t) ==
    /\ pc[t] = "kbd"
    /\ \E ok \in InstallOutcomes("KEYBOARD_HOOK") :
          /\ IF ok THEN /\ OsInstall("kbd", t)
                        /\ KEYBOARD_HOOK' = Len(issued) + 1
             ELSE UNCHANGED <<KEYBOARD_HOOK, issued, active>>
          /\ Continue(t, AfterKeyboardHook(ok, args[t].mouse))
    /\ UNCHANGED <<MOUSE_HOOK, CALLBACK, EXIT, unhookCalls, queue, hp,
                   delivered, spc, histVars, calls, aux>>

\* lib.rs:161-172
set_mouse_hook(t) ==
    /\ pc[t] = "mouse"
    /\ \E ok \in InstallOutcomes("MOUSE_HOOK") :
          /\ IF ok THEN /\ OsInstall("mouse", t)
                        /\ MOUSE_HOOK' = Len(issued) + 1
             ELSE UNCHANGED <<MOUSE_HOOK, issued, active>>
          /\ Continue(t, AfterMouseHook(ok))
    /\ UNCHANGED <<KEYBOARD_HOOK, CALLBACK, EXIT, unhookCalls, queue, hp,
                   delivered, spc, histVars, calls, aux>>

\* start_hook resets the callback slot together with the flag
ClearExit_AndCallback(t) ==
    /\ pc[t] = "clr"
    /\ EXIT' = FALSE
    /\ CALLBACK' = None
    /\ pc' = [pc EXCEPT ![t] = "getmsg"]
    /\ UNCHANGED <<KEYBOARD_HOOK, MOUSE_HOOK, osVars, args, hp,
                   delivered, spc, histVars, calls, aux>>

\* lib.rs:82-84: `*EXIT.write().map_err(..)? = false`
ClearExit(t) ==
    /\ pc[t] = "clr"
    /\ IF LockOk("EXIT")
       THEN /\ EXIT' = FALSE
            /\ Continue(t, "getmsg")
       ELSE /\ Return(t, "err")
            /\ UNCHANGED EXIT
    /\ UNCHANGED <<KEYBOARD_HOOK, MOUSE_HOOK, CALLBACK, osVars, hp,
                   delivered, spc, histVars, calls, aux>>

\* lib.rs:87: what GetMessageW returns for a posted message; 0 for WM_QUIT
GetMessageResult(m) == IF m = "WM_QUIT" THEN 0 ELSE 1

\* lib.rs:87-94, where control goes once GetMessageW has returned r: out of
\* the loop if r <= 0 or the flag is set, else (TranslateMessage and
\* DispatchMessageW done) back to GetMessageW
AfterGetMessage(r, exit) == IF r > 0 /\ ~exit THEN "getmsg" ELSE "ok"

\* lib.rs:87-89: with a message retrieved, `*EXIT.read().map_err(..)?`
\* returns the error of a poisoned flag
AfterGetMessageAt(r, exit) ==
    IF r > 0 /\ ~LockOk("EXIT") THEN "err" ELSE AfterGetMessage(r, exit)

\* one iteration of the loop: GetMessageW returns with the next posted
\* message, the flag is read
GetMessage(t) ==
    /\ pc[t] = "getmsg"
    /\ hp[t].stage = "none"
    /\ queue[t] # <<>>
    /\ queue' = [queue EXCEPT ![t] = Tail(@)]
    /\ LET next == AfterGetMessageAt(GetMessageResult(Head(queue[t])), EXIT)
       IN IF next \in Returned THEN Return(t, next) ELSE UNCHANGED <<pc, args>>
    /\ UNCHANGED <<regVars, issued, active, unhookCalls, hp, delivered, spc,
                   histVars, calls, aux>>

\* ------------------------------------------------------------- stop_hook
\* lib.rs:69: `*EXIT.write().map_err(..)? = true`: the flag is set and the
\* two removals follow, or stop_hook returns the error of a poisoned flag
StopBegin ==
    /\ spc = "idle"
    /\ CallMade
    /\ attempts' = {}
    /\ restarted' = {}
    /\ IF LockOk("EXIT")
       THEN /\ EXIT' = TRUE
            /\ spc' = "rm_kbd"
            /\ stopResult' = "none"
            /\ stopCovers' = {t \in AsyncThreads : pc[t] \in Running}
            /\ quiet' = \A t \in LoopThreads : pc[t] \notin Installing
       ELSE /\ stopResult' = "err"
            /\ UNCHANGED <<EXIT, spc, stopCovers, quiet>>
    /\ UNCHANGED <<KEYBOARD_HOOK, MOUSE_HOOK, CALLBACK, osVars, pc, args, hp,
                   delivered, stopped, stopAfter, replaced, invoked, poisoned>>

\* the handle is passed on without the test for Some
HasHook_Always(slot) == TRUE

\* lib.rs:175-179 / 188-192: `if let Some(hook) = ... .as_ref()`
HasHook(slot) == slot # None

\* lib.rs:174-185: the handle is read and passed to UnhookWindowsHookEx; the
\* static is left as it is.  With KEYBOARD_HOOK poisoned the function returns
\* the error, which stop_hook discards (lib.rs:70)
remove_keyboard_hook ==
    /\ spc = "rm_kbd"
    /\ IF LockOk("KEYBOARD_HOOK") /\ HasHook(KEYBOARD_HOOK)
       THEN OsUnhook(KEYBOARD_HOOK)
       ELSE UNCHANGED <<active, unhookCalls>>
    /\ spc' = "rm_mouse"
    /\ attempts' = attempts \cup {"kbd"}
    /\ UNCHANGED <<regVars, issued, queue, pc, args, hp, delivered, histVars,
                   calls, stopResult, poisoned>>

\* lib.rs:187-198, then lib.rs:72: stop_hook returns Ok(())
remove_mouse_hook ==
    /\ spc = "rm_mouse"
    /\ IF LockOk("MOUSE_HOOK") /\ HasHook(MOUSE_HOOK)
       THEN OsUnhook(MOUSE_HOOK)
       ELSE UNCHANGED <<active, unhookCalls>>
    /\ spc' = "idle"
    /\ attempts' = attempts \cup {"mouse"}
    /\ stopResult' = "ok"
    /\ stopped' = quiet
    /\ stopAfter' = stopAfter \cup stopCovers
    /\ stopCovers' = {}
    /\ quiet' = FALSE
    /\ UNCHANGED <<regVars, issued, queue, pc, args, hp, delivered, calls,
                   replaced, restarted, invoked, poisoned>>

\* ----------------------------------------------------- set_hook_callback
\* the read guards of CALLBACK now held: a hook procedure holds one from its
\* CALLBACK.read() to the end of its callback block, the call of the callback
\* included
InCallbackBlock == {"locked", "cb_write", "cb_rm_kbd", "cb_rm_mouse"}

CallbackReaders ==
    Cardinality({t \in LoopThreads : hp[t].stage \in InCallbackBlock})

\* the write is made without waiting for the readers
CallbackWritable_NoLock(readers) == TRUE

\* lib.rs:54-56: CALLBACK.write() is granted when no read guard is held
CallbackWritable(readers) == readers = 0

\* lib.rs:53-59, called by the caller thread between its stop_hook calls;
\* with CALLBACK poisoned the guard is granted all the same, inside the
\* error that `?` returns, and nothing is stored
set_hook_callback(c) ==
    /\ spc = "idle"
    /\ CallbackWritable(CallbackReaders)
    /\ CallMade
    /\ IF LockOk("CALLBACK")
       THEN /\ CALLBACK' = c
            /\ replaced' = (replaced \cup ({CALLBACK} \ {None})) \ {c}
       ELSE UNCHANGED <<CALLBACK, replaced>>
    /\ UNCHANGED <<KEYBOARD_HOOK, MOUSE_HOOK, EXIT, osVars, pc, args, hp,
                   delivered, spc, stopped, stopCovers, stopAfter, quiet,
                   restarted, invoked, aux>>

\* ------------------------------------------------------- hook procedures
\* the results CallNextHookEx may give (the rest of the chain decides)
ChainResults == {0, 1}

\* lib.rs:102-123 / 133-141: what the procedure of this kind decodes
Decode(kind, wparam, vk, pt) ==
    IF kind = "kbd" THEN KeyboardDecode(wparam, vk) ELSE MouseDecode(wparam, pt)

\* lib.rs:100-126 / 131-144: whether the callback block calls the callback
Invokes(cb, null, ev) == cb # None /\ ~null /\ ev # NoEvent

\* the procedure returns early when it has nothing to deliver
NextHookCalls_OnEvent(cb, null, ev) == IF Invokes(cb, null, ev) THEN 1 ELSE 0

\* lib.rs:127 / 145: the calls of CallNextHookEx the procedure makes once
\* the callback block is left, whatever the block did
NextHookCalls(cb, null, ev) == 1

\* the call is recorded ahead of the calls made before it
Deliver_First(log, call) == <<call>> \o log

\* lib.rs:106-118 / 141: `callback(event)`, a direct call of the function
\* pointer from within the hook procedure
Deliver(log, call) == Append(log, call)

\* lib.rs:127 / 145: `*KEYBOARD_HOOK.read().unwrap()`, the argument of
\* CallNextHookEx: unwrap panics on the error of a poisoned lock, and the
\* panic ends the procedure (and, out of an `extern "system"` function, the
\* process or worse) before CallNextHookEx is called
HandleRead(kind) == IF LockOk(HandleLock(kind)) THEN "ret" ELSE "panicked"

\* the operating system invokes the procedure of an installed hook on the
\* thread that installed it, while that thread waits in GetMessageW; the
\* procedure takes the read guard of CALLBACK (lib.rs:100 / 131), or, the
\* lock being poisoned, skips the callback block (`if let Ok(..)`)
HookProcEnter(t, h, w, null, vk, pt) ==
    /\ pc[t] = "getmsg"
    /\ hp[t].stage = "none"
    /\ queue[t] = <<>>
    /\ h \in HooksOf(t)
    /\ w \in CodesOf(issued[h].kind)
    /\ null => w \in NullCodes
    /\ CallMade
    /\ LET cb == IF LockOk("CALLBACK") THEN CALLBACK ELSE None
           ev == Decode(issued[h].kind, w, vk, pt)
       IN /\ hp' = [hp EXCEPT ![t] =
                       [IdleHp EXCEPT
                           !.stage = IF LockOk("CALLBACK") THEN "locked"
                                     ELSE "skipped",
                           !.kind = issued[h].kind, !.wparam = w,
                           !.null = null,
                           !.vk = IF issued[h].kind = "kbd" /\ ~null
                                  THEN vk ELSE 0,
                           !.pt = IF issued[h].kind = "mouse" /\ ~null
                                  THEN pt ELSE <<0, 0>>,
                           !.cb = cb]]
          /\ invoked' = IF Invokes(cb, null, ev)
                        THEN [invoked EXCEPT ![t] = Append(@, ev)]
                        ELSE invoked
    /\ UNCHANGED <<regVars, osVars, pc, args, delivered, spc, stopped,
                   stopCovers, stopAfter, quiet, replaced, restarted, aux>>

\* what the procedure does once the callback block is left (lib.rs:127 /
\* 145): it reads the handle and calls CallNextHookEx, whose result, r if the
\* rest of the chain says so, is the procedure's result
AfterCallbackBlock(p, ev, r) ==
    IF HandleRead(p.kind) = "panicked"
    THEN [IdleHp EXCEPT !.stage = "panicked", !.kind = p.kind]
    ELSE [IdleHp EXCEPT !.stage = "ret", !.kind = p.kind,
             !.calls = NextHookCalls(p.cb, p.null, ev),
             !.chain = r,
             !.ret = IF NextHookCalls(p.cb, p.null, ev) > 0 THEN r ELSE 0]

\* lib.rs:101-127 / 132-145: the callback, if any, is called with the decoded
\* event and the read guard is dropped at the end of the block; then
\* CallNextHookEx, whose result is the procedure's result
HookProcBody(t) ==
    /\ hp[t].stage \in {"locked", "skipped"}
    /\ LET p == hp[t]
           ev == Decode(p.kind, p.wparam, p.vk, p.pt)
       IN /\ delivered' = IF Invokes(p.cb, p.null, ev)
                          THEN Deliver(delivered, [t |-> t, cb |-> p.cb, ev |-> ev])
                          ELSE delivered
          /\ \E r \in ChainResults :
                hp' = [hp EXCEPT ![t] = AfterCallbackBlock(p, ev, r)]
    /\ UNCHANGED <<regVars, osVars, pc, args, spc, histVars, calls, aux>>

\* the procedure returns to the operating system
HookProcReturn(t) ==
    /\ hp[t].stage = "ret"
    /\ hp' = [hp EXCEPT ![t] = IdleHp]
    /\ UNCHANGED <<regVars, osVars, pc, args, delivered, spc, histVars, calls,
                   aux>>

\* ------------------------------------------------------------------ Next
Messages == {"WM_APP", "WM_QUIT"}

\* a keyboard or mouse event occurs somewhere in the system
InputEvent ==
    \E t \in LoopThreads : \E h \in HooksOf(t) :
       \E w \in CodesOf(issued[h].kind), null \in BOOLEAN, vk \in VkCodes,
          pt \in Points : HookProcEnter(t, h, w, null, vk, pt)

ThreadStep(t) ==
    \/ set_keyboard_hook(t)
    \/ set_mouse_hook(t)
    \/ ClearExit(t)
    \/ GetMessage(t)
    \/ HookProcBody(t)
    \/ HookProcReturn(t)

StopStep ==
    \/ remove_keyboard_hook
    \/ remove_mouse_hook

Next ==
    \/ \E m, k \in BOOLEAN : start_hook(m, k)
    \/ \E t \in AsyncThreads : \E m, k \in BOOLEAN : start_hook_async(t, m, k)
    \/ StopBegin
    \/ StopStep
    \/ \E c \in Callbacks : set_hook_callback(c)
    \/ \E t \in LoopThreads : ThreadStep(t)
    \/ \E t \in LoopThreads : \E m \in Messages : PostMessage(t, m)
    \/ InputEvent

Spec == Init /\ [][Next]_vars

\* the steps of the crate's own code are taken when they can be; that a
\* message is posted, that an input event occurs or that the application
\* calls the crate again is up to the environment
FairSpec ==
    /\ Spec
    /\ \A t \in LoopThreads : WF_vars(ThreadStep(t))
    /\ WF_vars(StopStep)

\* ---------------------------------------------------------------- faults
\* lock l is poisoned from now on.  No function of the crate can panic while
\* it holds a write guard, so no behaviour of Spec has this step; it is the
\* fault that the crate's `map_err(..)?`, `if let Ok(..)` and `unwrap()` on
\* the results of read() and write() are written for
Poison(l) ==
    /\ l \notin poisoned
    /\ CallMade
    /\ poisoned' = poisoned \cup {l}
    /\ UNCHANGED <<regVars, osVars, pc, args, hp, delivered, spc, histVars,
                   stopResult, attempts>>

PoisonNext == Next \/ \E l \in Locks : Poison(l)

\* the crate with poisoned locks
PoisonSpec == Init /\ [][PoisonNext]_vars

\* --------------------------------------------------- re-entrant callbacks
\* The callback is a function of the application: it may call the crate.  It
\* runs on the loop thread, inside the callback block of the hook procedure,
\* which holds its read guard of CALLBACK until the callback has returned
\* (lib.rs:100-126 / 131-144).

\* the callback is called and calls stop_hook(): lib.rs:69
CallbackStopBegin(t) ==
    /\ hp[t].stage = "locked"
    /\ LET p == hp[t]
           ev == Decode(p.kind, p.wparam, p.vk, p.pt)
       IN /\ Invokes(p.cb, p.null, ev)
          /\ delivered' = Deliver(delivered, [t |-> t, cb |-> p.cb, ev |-> ev])
    /\ CallMade
    /\ IF LockOk("EXIT")
       THEN /\ EXIT' = TRUE
            /\ hp' = [hp EXCEPT ![t].stage = "cb_rm_kbd"]
       ELSE /\ hp' = [hp EXCEPT ![t].stage = "cb_return"]
            /\ UNCHANGED EXIT
    /\ UNCHANGED <<KEYBOARD_HOOK, MOUSE_HOOK, CALLBACK, osVars, pc, args, spc,
                   histVars, aux>>

\* lib.rs:70, in the stop_hook call of the callback
CallbackRemoveKeyboard(t) ==
    /\ hp[t].stage = "cb_rm_kbd"
    /\ IF LockOk("KEYBOARD_HOOK") /\ HasHook(KEYBOARD_HOOK)
       THEN OsUnhook(KEYBOARD_HOOK)
       ELSE UNCHANGED <<active, unhookCalls>>
    /\ hp' = [hp EXCEPT ![t].stage = "cb_rm_mouse"]
    /\ UNCHANGED <<regVars, issued, queue, pc, args, delivered, spc, histVars,
                   calls, aux>>

\* lib.rs:71-72, in the stop_hook call of the callback, which returns
\* to the callback
CallbackRemoveMouse(t) ==
    /\ hp[t].stage = "cb_rm_mouse"
    /\ IF LockOk("MOUSE_HOOK") /\ HasHook(MOUSE_HOOK)
       THEN OsUnhook(MOUSE_HOOK)
       ELSE UNCHANGED <<active, unhookCalls>>
    /\ hp' = [hp EXCEPT ![t].stage = "cb_return"]
    /\ UNCHANGED <<regVars, issued, queue, pc, args, delivered, spc, histVars,
                   calls, aux>>

\* the callback is called and calls set_hook_callback(c), which asks for the
\* write guard of CALLBACK (lib.rs:54-55); once the guard is granted, c is
\* stored and set_hook_callback returns to the callback
CallbackSetCallback(t, c) ==
    /\ hp[t].stage \in {"locked", "cb_write"}
    /\ IF hp[t].stage = "locked"
       THEN /\ LET p == hp[t]
                   ev == Decode(p.kind, p.wparam, p.vk, p.pt)
               IN /\ Invokes(p.cb, p.null, ev)
                  /\ delivered' =
                        Deliver(delivered, [t |-> t, cb |-> p.cb, ev |-> ev])
            /\ CallMade
            /\ hp' = [hp EXCEPT ![t].stage = "cb_write", ![t].arg = c]
            /\ UNCHANGED <<CALLBACK, replaced>>
       ELSE /\ c = hp[t].arg
            /\ CallbackWritable(CallbackReaders)
            /\ IF LockOk("CALLBACK")
               THEN /\ CALLBACK' = c
                    /\ replaced' = (replaced \cup ({CALLBACK} \ {None})) \ {c}
               ELSE UNCHANGED <<CALLBACK, replaced>>
            /\ hp' = [hp EXCEPT ![t].stage = "cb_return"]
            /\ UNCHANGED <<delivered, calls>>
    /\ UNCHANGED <<KEYBOARD_HOOK, MOUSE_HOOK, EXIT, osVars, pc, args, spc,
                   stopped, stopCovers, stopAfter, quiet, restarted, invoked,
                   aux>>

\* the callback returns from the call it made, the callback block ends
\* and the read guard is dropped; then lib.rs:127 / 145
CallbackReturn(t) ==
    /\ hp[t].stage = "cb_return"
    /\ LET p == hp[t]
           ev == Decode(p.kind, p.wparam, p.vk, p.pt)
       IN \E r \in ChainResults :
             hp' = [hp EXCEPT ![t] = AfterCallbackBlock(p, ev, r)]
    /\ UNCHANGED <<regVars, osVars, pc, args, delivered, spc, histVars, calls,
                   aux>>

ReentrantStep(t) ==
    \/ CallbackStopBegin(t)
    \/ CallbackRemoveKeyboard(t)
    \/ CallbackRemoveMouse(t)
    \/ \E c \in Callbacks : CallbackSetCallback(t, c)
    \/ CallbackReturn(t)

ReentrantNext == Next \/ \E t \in LoopThreads : ReentrantStep(t)

\* the crate with callbacks that call it; the steps of the code on the loop
\* threads and of stop_hook are taken when they can be
FairReentrantSpec ==
    /\ Init /\ [][ReentrantNext]_vars
    /\ \A t \in LoopThreads : WF_vars(ThreadStep(t)) /\ WF_vars(ReentrantStep(t))
    /\ WF_vars(StopStep)

\* ============================================================ properties
Both == [mouse |-> TRUE, keyboard |-> TRUE]

\* a thread waits in GetMessageW: in the loop, no hook procedure running, no
\* message posted
Blocked(t) == pc[t] = "getmsg" /\ hp[t].stage = "none" /\ queue[t] = <<>>

\* stop_hook has just set the flag while thread t, started with both hooks,
\* waits in GetMessageW; the start call of t and this stop_hook call are the
\* only calls made so far
StopWhileBlocked(t) ==
    /\ spc = "rm_kbd"
    /\ EXIT
    /\ Blocked(t)
    /\ args[t] = Both
    /\ calls = 2

\* C1: when stop_hook is called while the thread that runs start_hook with
\* both hooks waits in message retrieval, that thread eventually leaves the
\* loop and start_hook returns.  (The formula asks for this only of the
\* behaviours in which the two calls are the last thing that happens to the
\* crate: no further call, no posted message, no input event.)
C1_StopEndsLoop ==
    \A t \in LoopThreads :
        StopWhileBlocked(t) ~> (pc[t] \in Returned \/ calls > 2)

\* C2: when stop_hook returns, no thread having been installing hooks during
\* the call, KEYBOARD_HOOK and MOUSE_HOOK hold no handle.
C2_StopClearsHandles ==
    [][(spc = "rm_mouse" /\ spc' = "idle" /\ quiet)
         => (KEYBOARD_HOOK' = None /\ MOUSE_HOOK' = None)]_vars

\* the handles SetWindowsHookExW has returned
Issued == 1..Len(issued)

\* C3: no handle is passed to UnhookWindowsHookEx twice, and a handle that
\* the registry no longer holds has been passed to it once.
C3_UnhookExactlyOnce ==
    \A h \in Issued :
        /\ unhookCalls[h] <= 1
        /\ h \notin {KEYBOARD_HOOK, MOUSE_HOOK} => unhookCalls[h] = 1

\* C4: at most one keyboard hook and at most one mouse hook of this process
\* is installed at the operating system.
C4_AtMostOneHookOfAKind ==
    /\ Cardinality(ActiveOf("kbd")) <= 1
    /\ Cardinality(ActiveOf("mouse")) <= 1

\* C5: a thread whose start_hook call has returned an error has no hook
\* installed at the operating system.
C5_FailedStartLeavesNoHook ==
    \A t \in LoopThreads : pc[t] = "err" => HooksOf(t) = {}

\* C6: a hook procedure that returns has called CallNextHookEx exactly once
\* and returns the result of that call, whatever the callback block did.
C6_NextHookCalledOnce ==
    \A t \in LoopThreads :
        hp[t].stage = "ret" => hp[t].calls = 1 /\ hp[t].ret = hp[t].chain

\* a mouse hook procedure is about to return without having called a
\* callback, one being registered (null payload or no event decoded)
C6_Witness ==
    \E t \in LoopThreads :
        /\ hp[t].stage = "ret"
        /\ hp[t].kind = "mouse"
        /\ CALLBACK # None
        /\ delivered = <<>>

\* C7: every call of a callback is a call of the callback registered last:
\* a callback that set_hook_callback has replaced is not called again.
C7_OnlyCurrentCallbackInvoked ==
    [][Len(delivered') > Len(delivered)
         => /\ delivered'[Len(delivered')].cb = CALLBACK
            /\ delivered'[Len(delivered')].cb \notin replaced]_vars

\* a callback was registered, then replaced by callback 2, and the event that
\* followed was delivered to callback 2
C7_Witness ==
    /\ replaced = {1}
    /\ CALLBACK = 2
    /\ Len(delivered) = 1
    /\ delivered[1].cb = 2

\* C8: once a stop_hook call made after start_hook_async has returned and the
\* spawned thread is in its loop (no other thread having called start_hook),
\* the flag is set, so that the next iteration leaves the loop, and no hook of
\* the spawned thread is installed.
C8_AsyncStopNotLost ==
    \A t \in stopAfter :
        (pc[t] = "getmsg" /\ pc[SyncThread] = "idle")
            => (EXIT /\ HooksOf(t) = {})

\* C9: a stop_hook call that follows a stop_hook call, no start call between
\* them and no thread installing hooks meanwhile, makes no UnhookWindowsHookEx
\* call and leaves the two handles and the installed hooks as they were.
C9_SecondStopDoesNothing ==
    [][(stopped /\ quiet /\ spc' # spc)
         => UNCHANGED <<unhookCalls, active, KEYBOARD_HOOK, MOUSE_HOOK>>]_vars

NoStartEver == \A t \in LoopThreads : pc[t] = "idle"

\* C10: a stop_hook call made when start_hook has never been called returns
\* having made no UnhookWindowsHookEx call and with both handles unset.
C10_StopBeforeStartIsNoOp ==
    (NoStartEver /\ stopped)
        => /\ KEYBOARD_HOOK = None
           /\ MOUSE_HOOK = None
           /\ active = {}
           /\ \A h \in DOMAIN unhookCalls : unhookCalls[h] = 0

\* stop_hook has returned and start_hook has never been called
C10_Witness == NoStartEver /\ stopped /\ spc = "idle"

\* what a registry slot holds once thread t has installed what it was asked
\* to: the handle of its own installed hook of that kind if the kind was
\* requested, nothing otherwise
SlotOfSession(slot, kind, requested, t) ==
    IF requested THEN slot \in ActiveOf(kind) \cap HooksOf(t) ELSE slot = None

\* C11: when a start_hook(m, k) call is the first call after a stop_hook
\* call has returned and its thread has reached the loop, the hooks installed
\* at the operating system are exactly those this call installed, one for
\* each requested kind, and the registry holds their handles and no other:
\* the slot of a kind that was not requested is empty.
C11_RestartInstallsCleanly ==
    \A t \in restarted :
        pc[t] = "getmsg"
            => /\ SlotOfSession(KEYBOARD_HOOK, "kbd", args[t].keyboard, t)
               /\ SlotOfSession(MOUSE_HOOK, "mouse", args[t].mouse, t)
               /\ active = {KEYBOARD_HOOK, MOUSE_HOOK} \ {None}

\* the operating system's message numbers of the mouse actions (WM_MOUSEMOVE
\* 0x200, WM_LBUTTONDOWN 0x201, WM_LBUTTONUP 0x202, WM_RBUTTONDOWN 0x204,
\* WM_RBUTTONUP 0x205, WM_MBUTTONDOWN 0x207, WM_MBUTTONUP 0x208, WM_MOUSEWHEEL
\* 0x20A), by the name of the MouseEvent variant of the action
OsMouseMessage ==
    [MouseMove |-> 512, MouseLeftBUttonDown |-> 513, MouseLeftButtonUp |-> 514,
     MouseRightButtonDown |-> 516, MouseRightButtonUp |-> 517,
     MouseMiddleButtonDown |-> 519, MouseMiddleButtonUp |-> 520,
     MouseWheelRouting |-> 522]

\* thread t leaves the callback block of a hook procedure of this kind that
\* read a registered callback and got a payload
CallbackBlockDone(t, kind) ==
    /\ hp[t].stage = "locked"
    /\ hp'[t].stage # "locked"
    /\ hp[t].kind = kind
    /\ hp[t].cb # None
    /\ ~hp[t].null

\* the callback is called once in this step
OneDelivered == Len(delivered') = Len(delivered) + 1

\* the event of the last call of the callback after this step
LastDelivered == delivered'[Len(delivered')].ev

\* C12: with a callback registered, mouse_hook_proc delivers the operating
\* system's mouse message of every action kind (its number in wparam) to the
\* callback as the MouseEvent variant of that kind.
C12_OsMouseMessageDelivered ==
    [][\A t \in LoopThreads : \A v \in DOMAIN OsMouseMessage :
          (CallbackBlockDone(t, "mouse") /\ hp[t].wparam = OsMouseMessage[v])
              => (OneDelivered /\ LastDelivered[1] = v)]_vars

\* the callback of the hook procedure that thread t executes is called once
\* in this step, with event ev
DeliveredBy(t, ev) ==
    delivered' = Append(delivered, [t |-> t, cb |-> hp[t].cb, ev |-> ev])

KeyDownCodes == {256, 260}
KeyUpCodes == {257, 261}

\* C13: with a callback registered and a non-null payload, keyboard_hook_proc
\* calls the callback once, with KeyPress(vkCode), for the raw identifiers
\* 0x100 and 0x104, once, with KeyUp(vkCode), for 0x101 and 0x105, and does
\* not call it for any other raw identifier.
C13_KeyboardDelivery ==
    [][\A t \in LoopThreads :
          CallbackBlockDone(t, "kbd")
              => /\ hp[t].wparam \in KeyDownCodes
                       => DeliveredBy(t, <<"KeyPress", hp[t].vk>>)
                 /\ hp[t].wparam \in KeyUpCodes
                       => DeliveredBy(t, <<"KeyUp", hp[t].vk>>)
                 /\ hp[t].wparam \notin KeyDownCodes \cup KeyUpCodes
                       => delivered' = delivered]_vars

\* keyboard_hook_proc has called the callback with KeyUp(65) and is about to
\* return
C13_Witness ==
    \E t \in LoopThreads :
        /\ hp[t].stage = "ret"
        /\ hp[t].kind = "kbd"
        /\ Len(delivered) = 1
        /\ delivered[1].ev = <<"KeyUp", 65>>

\* the raw codes of the MouseEvent table
TableCodes == {MouseEventTable[v] : v \in DOMAIN MouseEventTable}

\* C14: with a callback registered and a non-null payload, mouse_hook_proc
\* calls the callback once, with the variant the MouseEvent table gives the
\* raw code and the position of the payload, for every raw code of the table;
\* for any other raw code it does not call the callback and goes on to its
\* CallNextHookEx call and its return.
C14_MouseDelivery ==
    [][\A t \in LoopThreads :
          CallbackBlockDone(t, "mouse")
              => /\ \A v \in DOMAIN MouseEventTable :
                        hp[t].wparam = MouseEventTable[v]
                            => DeliveredBy(t, <<v, hp[t].pt>>)
                 /\ hp[t].wparam \notin TableCodes
                       => /\ delivered' = delivered
                          /\ hp'[t].stage = "ret"
                          /\ hp'[t].calls = 1]_vars

\* mouse_hook_proc has called the callback with the left button pressed at
\* (120, 340) and is about to return
C14_Witness ==
    \E t \in LoopThreads :
        /\ hp[t].stage = "ret"
        /\ hp[t].kind = "mouse"
        /\ Len(delivered) = 1
        /\ delivered[1].ev = <<"MouseLeftBUttonDown", <<120, 340>>>>

\* the calls of the callback made on thread t, in order
DeliveredOn(t) == SelectSeq(delivered, LAMBDA c : c.t = t)

\* 1 if thread t executes a hook procedure that has a callback and a payload
\* that decodes, and has not called the callback yet
InFlight(t) ==
    IF /\ hp[t].stage = "locked"
       /\ Invokes(hp[t].cb, hp[t].null,
                  Decode(hp[t].kind, hp[t].wparam, hp[t].vk, hp[t].pt))
    THEN 1 ELSE 0

\* C15: on every thread the calls of the callback are, in the same order and
\* one for one, the hook procedure invocations of the operating system on
\* that thread that found a callback and decoded an event: none is missing
\* but the one in progress, none is repeated, none is out of order and none
\* is held back behind a later invocation.
C15_DeliveredInOrder ==
    \A t \in LoopThreads :
        /\ Len(DeliveredOn(t)) = Len(invoked[t]) - InFlight(t)
        /\ \A i \in 1..Len(DeliveredOn(t)) : DeliveredOn(t)[i].ev = invoked[t][i]

\* two different events have been delivered on one thread
C15_Witness ==
    \E t \in LoopThreads :
        /\ Len(DeliveredOn(t)) = 2
        /\ DeliveredOn(t)[1].ev # DeliveredOn(t)[2].ev
        /\ hp[t].stage = "none"

\* thread t leaves the callback block of a hook procedure in this step
BlockLeft(t) ==
    /\ hp[t].stage \in {"locked", "skipped"}
    /\ hp'[t].stage # hp[t].stage

\* C16: whatever locks are poisoned, a hook procedure that leaves its
\* callback block goes on to call CallNextHookEx once and to return, without
\* a panic, and it has not called the callback if it found the lock of the
\* callback slot poisoned.
C16_PoisonIsSwallowed ==
    [][\A t \in LoopThreads :
          BlockLeft(t)
              => /\ hp'[t].stage = "ret"
                 /\ hp'[t].calls = 1
                 /\ hp[t].stage = "skipped" => delivered' = delivered]_vars

\* C17: a stop_hook call that has returned, with Ok or with an error, has
\* called remove_keyboard_hook and remove_mouse_hook, whatever the first of
\* them returned.
C17_StopAttemptsBoth ==
    stopResult # "none" => attempts = {"kbd", "mouse"}

\* thread t leaves set_keyboard_hook or set_mouse_hook (position at) in this
\* step without a hook having been installed
InstallFailed(t, at) == pc[t] = at /\ pc'[t] # at /\ issued' = issued

\* C18: when the installation of a requested hook fails, start_hook returns
\* the error at once: it does not go on to the installation of the mouse hook
\* after a failed keyboard installation, does not enter the loop, and leaves
\* the termination flag as it was.
C18_InstallFailureIsFatal ==
    [][\A t \in LoopThreads :
          (InstallFailed(t, "kbd") \/ InstallFailed(t, "mouse"))
              => (pc'[t] = "err" /\ EXIT' = EXIT /\ active' = active)]_vars

\* start_hook has returned an error without any hook having ever been
\* installed, and the flag that an earlier stop_hook set is still set
C18_Witness ==
    \E t \in LoopThreads : pc[t] = "err" /\ issued = <<>> /\ EXIT

\* C19: a loop thread that is in the callback block of a hook procedure,
\* whatever the callback calls, gets to the end of the procedure: the callback
\* returns, the read guard is dropped and CallNextHookEx is called.
C19_CallbackBlockEnds ==
    \A t \in LoopThreads :
        (hp[t].stage \in InCallbackBlock) ~> (hp[t].stage = "ret")

\* C20: no step empties the callback slot once it holds a callback, and
\* every step of a start_hook call, of a stop_hook call or of a hook
\* procedure leaves the slot as it is.
C20_CallbackNeverCleared ==
    [][/\ CALLBACK # None => CALLBACK' # None
       /\ (pc' # pc \/ spc' # spc \/ hp' # hp) => CALLBACK' = CALLBACK]_vars

\* a callback was registered and called in a session, stop_hook has returned
\* since, and the slot still holds that callback
C20_Witness ==
    /\ stopped
    /\ spc = "idle"
    /\ replaced = {}
    /\ Len(delivered) = 1
    /\ delivered[1].cb = CALLBACK

====
